---- MODULE Spec2Model ----
(***************************************************************************)
(* Model of report/report.ipynb: the NER-with-BERT report.                 *)
(*                                                                         *)
(* The notebook holds four things that have behaviour or checkable data:   *)
(*   - the results tables, the F1 definition and the discussion that       *)
(*     quotes the tables                               (SpecReport)        *)
(*   - the one code cell, which configures the display  (SpecCell)         *)
(*   - the fine-tuning loop, given step by step          (SpecTrain)       *)
(*   - the clean-up step of preprocessing                (SpecClean)       *)
(* Each part has its own variables, initial condition and next-state       *)
(* relation; a specification runs one part and holds the others idle.      *)
(***************************************************************************)
EXTENDS Integers, Sequences, FiniteSets

VARIABLES
    \* ---- report: a reader looking up the tables and applying the F1 formula
    row,            \* the table row in hand: "none", "ALL" or a class
    p, r,           \* precision and recall in hand, in the row's unit
    f1,             \* F1 computed from p and r by the formula; -1 = not computed
    quoted,         \* F1 the discussion quotes for the row; -1 = not looked up
    \* ---- the code cell and the kernel it runs in
    figure_formats, \* InlineBackend.figure_formats
    font_family,    \* plt.rcParams['font.family']
    dpi,            \* value of the name DPI; 0 = unbound
    backend,        \* the active matplotlib backend
    ns,             \* kernel namespace: name -> what it is bound to
    installed,      \* the packages that can be imported
    data,           \* the input data (files on disk)
    outputs,        \* the outputs the cell has produced
    err,            \* the exception the last run ended with, or "none"
    runs,           \* number of runs of the cell so far
    \* ---- the fine-tuning loop
    nb,             \* number of batches per epoch
    epoch, batch,   \* position of the loop
    pc,             \* the step about to be executed, or "done"
    gradAcc,        \* number of backward passes accumulated in the gradients
    clipped,        \* whether the gradients in place have been clipped
    trace,          \* steps executed in the batch in hand, in order
    processed,      \* batch -> number of times it has been processed
    optSteps,       \* number of optimizer steps taken
    schedSteps,     \* number of scheduler steps taken
    \* ---- the clean-up step of preprocessing
    labels,         \* the label column, one label per word
    orig,           \* the label column as ingested
    prev,           \* the label column before the last clean-up pass
    passes          \* number of clean-up passes applied

reportVars == <<row, p, r, f1, quoted>>
cellVars   == <<figure_formats, font_family, dpi, backend, ns, installed,
                data, outputs, err, runs>>
trainVars  == <<nb, epoch, batch, pc, gradAcc, clipped, trace, processed,
                optSteps, schedSteps>>
cleanVars  == <<labels, orig, prev, passes>>
vars == <<reportVars, cellVars, trainVars, cleanVars>>

\* What each part leaves alone: the variables of the other parts.
notReport == <<cellVars, trainVars, cleanVars>>
notCell   == <<reportVars, trainVars, cleanVars>>
notTrain  == <<reportVars, cellVars, cleanVars>>
notClean  == <<reportVars, cellVars, trainVars>>

(***************************************************************************)
(* Bounds of the model.                                                    *)
(***************************************************************************)
MaxPct == 12        \* free precision/recall inputs range over 0..MaxPct
MaxRuns == 2        \* runs of the code cell
MaxBatches == 3     \* batches per epoch range over 1..MaxBatches
MaxWords == 3       \* length of the label column
MaxPasses == 2      \* clean-up passes

(***************************************************************************)
(* The report: tables, F1 definition, discussion.                          *)
(* Percentages of the general table are in hundredths of a percent         *)
(* (78.03% = 7803); the values of the detailed table are in hundredths     *)
(* (0.85 = 85).  Both are "two decimals" of their unit.                    *)
(***************************************************************************)
Classes == {"LOC", "MISC", "ORG", "PER"}

GeneralTable == [Accuracy |-> 9618, P |-> 7803, R |-> 8256, F1 |-> 8023]

DetailTable ==
    [LOC  |-> [P |-> 85, R |-> 91, F1 |-> 88, Support |-> 1837],
     MISC |-> [P |-> 87, R |-> 83, F1 |-> 85, Support |-> 922],
     ORG  |-> [P |-> 59, R |-> 67, F1 |-> 63, Support |-> 1341],
     PER  |-> [P |-> 82, R |-> 85, F1 |-> 83, Support |-> 1846]]

\* The F1 values the discussion quotes, class by class.
DiscussionSwappedB == [LOC |-> 88, MISC |-> 83, ORG |-> 63, PER |-> 85]
Discussion == [LOC |-> 88, MISC |-> 85, ORG |-> 63, PER |-> 83]

\* The class the discussion calls "the lowest precision and F1 score".
LowestClass == "ORG"

\* x / y rounded to the nearest integer (halves up), y > 0, x >= 0.
RoundDiv(x, y) == (2 * x + y) \div (2 * y)

\* F1 = 2 * (Precision * Recall) / (Precision + Recall), in the unit of its
\* arguments, rounded to that unit.
F1TruncatedB(P, R) == (2 * P * R) \div (P + R)
F1(P, R) == RoundDiv(2 * P * R, P + R)

Reported(c) == IF c = "ALL" THEN GeneralTable.F1 ELSE DetailTable[c].F1

InitReport ==
    /\ row = "none"
    /\ p = 0
    /\ r = 0
    /\ f1 = -1
    /\ quoted = -1

\* The reader takes the overall row of the general table.
ReadGeneral ==
    /\ row' = "ALL"
    /\ p' = GeneralTable.P
    /\ r' = GeneralTable.R
    /\ f1' = -1
    /\ quoted' = -1
    /\ UNCHANGED notReport

\* The reader takes the row of class c of the detailed table.
ReadDetail(c) ==
    /\ row' = c
    /\ p' = DetailTable[c].P
    /\ r' = DetailTable[c].R
    /\ f1' = -1
    /\ quoted' = -1
    /\ UNCHANGED notReport

\* The reader takes a precision and a recall of their own.
Enter(P, R) ==
    /\ row' = "none"
    /\ p' = P
    /\ r' = R
    /\ f1' = -1
    /\ quoted' = -1
    /\ UNCHANGED notReport

\* The F1 formula applied to the precision and recall in hand.
ComputeF1 ==
    /\ f1 = -1
    /\ p + r > 0
    /\ f1' = F1(p, r)
    /\ UNCHANGED <<row, p, r, quoted>>
    /\ UNCHANGED notReport

\* The reader looks up what the discussion says about the class in hand.
ReadDiscussion ==
    /\ row \in Classes
    /\ quoted = -1
    /\ quoted' = Discussion[row]
    /\ UNCHANGED <<row, p, r, f1>>
    /\ UNCHANGED notReport

NextReport ==
    \/ ReadGeneral
    \/ \E c \in Classes : ReadDetail(c)
    \/ \E P \in 0..MaxPct, R \in 0..MaxPct : Enter(P, R)
    \/ ComputeF1
    \/ ReadDiscussion

(***************************************************************************)
(* The code cell.  Its statements, in order:                               *)
(*   %config InlineBackend.figure_formats = ['svg']                        *)
(*   import pandas as pd; import numpy as np                               *)
(*   import matplotlib.pyplot as plt; from matplotlib.image import imread  *)
(*   import seaborn as sns                                                 *)
(*   plt.rcParams['font.family'] = 'Latin Modern Roman'                    *)
(*   DPI = 800                                                             *)
(*   %matplotlib inline                                                    *)
(* A Python cell stops at the first statement that raises; an import       *)
(* raises ModuleNotFoundError when its package is not installed.           *)
(***************************************************************************)
DPI == 800

Packages == {"pandas", "numpy", "matplotlib", "seaborn"}

Imports ==
    << [pkg |-> "pandas",     name |-> "pd",     obj |-> "pandas"],
       [pkg |-> "numpy",      name |-> "np",     obj |-> "numpy"],
       [pkg |-> "matplotlib", name |-> "plt",    obj |-> "matplotlib.pyplot"],
       [pkg |-> "matplotlib", name |-> "imread", obj |-> "matplotlib.image.imread"],
       [pkg |-> "seaborn",    name |-> "sns",    obj |-> "seaborn"] >>

ImportNames == {Imports[i].name : i \in 1..Len(Imports)}

\* Names of the kernel namespace: the imported ones and one of the user's.
Names == ImportNames \cup {"df"}

\* The number of import statements that run before one raises.
NumImported(inst) ==
    CHOOSE k \in 0..Len(Imports) :
        /\ \A i \in 1..k : Imports[i].pkg \in inst
        /\ k < Len(Imports) => Imports[k + 1].pkg \notin inst

\* The namespace n0 after the first k import statements.
BindAlsoClearsB(n0, k) ==
    [n \in Names |->
        IF \E i \in 1..k : Imports[i].name = n
        THEN Imports[CHOOSE i \in 1..k : Imports[i].name = n].obj
        ELSE "unbound"]
Bind(n0, k) ==
    [n \in Names |->
        IF \E i \in 1..k : Imports[i].name = n
        THEN Imports[CHOOSE i \in 1..k : Imports[i].name = n].obj
        ELSE n0[n]]

InitCell ==
    /\ figure_formats \in {<<"png">>, <<"svg">>}
    /\ font_family \in {"sans-serif", "Latin Modern Roman"}
    /\ dpi \in {0, 100, DPI}
    /\ backend \in {"agg", "inline"}
    /\ ns \in {[n \in Names |-> IF n = "np" THEN a ELSE IF n = "df" THEN b ELSE "unbound"] :
                  a \in {"unbound", "user"}, b \in {"unbound", "user"}}
    /\ installed \in SUBSET Packages
    /\ data \in {{}, {"train"}, {"train", "test"}}
    /\ outputs = <<>>
    /\ err = "none"
    /\ runs = 0

\* One run of the cell.
RunCell ==
    LET k  == NumImported(installed)
        ok == k = Len(Imports)
    IN  /\ runs < MaxRuns
        /\ runs' = runs + 1
        /\ figure_formats' = <<"svg">>
        /\ ns' = Bind(ns, k)
        /\ font_family' = IF ok THEN "Latin Modern Roman" ELSE font_family
        /\ dpi' = IF ok THEN DPI ELSE dpi
        /\ backend' = IF ok THEN "inline" ELSE backend
        /\ err' = IF ok THEN "none" ELSE "ModuleNotFoundError"
        /\ UNCHANGED <<installed, data, outputs>>
        /\ UNCHANGED notCell

NextCell == RunCell

(***************************************************************************)
(* The fine-tuning loop: "Iterate over the dataset for 10 epochs. During   *)
(* each batch, the following steps are executed: forward pass, backward    *)
(* pass, gradient clipping, optimization step, learning rate scheduling,   *)
(* zero the gradients".                                                    *)
(***************************************************************************)
Epochs == 10

StepOrder == <<"forward", "backward", "clip", "optim", "sched", "zero">>

\* The step that follows step s within a batch.
Position(s) == CHOOSE i \in 1..Len(StepOrder) : StepOrder[i] = s
AfterStepOptimFirstB(s) ==
    CASE s = "backward" -> "optim"
      [] s = "optim"    -> "clip"
      [] s = "clip"     -> "sched"
      [] OTHER          -> StepOrder[Position(s) + 1]
AfterStep(s) == StepOrder[Position(s) + 1]

\* Whether epoch e is the last one.
LastEpochOffByOneB(e) == e = Epochs + 1
LastEpoch(e) == e = Epochs

InitTrain ==
    /\ nb \in 1..MaxBatches
    /\ epoch = 1
    /\ batch = 1
    /\ pc = "forward"
    /\ gradAcc = 0
    /\ clipped = FALSE
    /\ trace = <<>>
    /\ processed = [b \in 1..nb |-> 0]
    /\ optSteps = 0
    /\ schedSteps = 0

\* Forward pass: compute the model's output and loss.
Forward ==
    /\ pc = "forward"
    /\ trace' = <<"forward">>
    /\ pc' = AfterStep("forward")
    /\ UNCHANGED <<nb, epoch, batch, gradAcc, clipped, processed, optSteps, schedSteps>>
    /\ UNCHANGED notTrain

\* Backward pass: the gradient of the loss is added to the gradients in place.
Backward ==
    /\ pc = "backward"
    /\ gradAcc' = gradAcc + 1
    /\ clipped' = FALSE
    /\ trace' = Append(trace, "backward")
    /\ pc' = AfterStep("backward")
    /\ UNCHANGED <<nb, epoch, batch, processed, optSteps, schedSteps>>
    /\ UNCHANGED notTrain

\* Gradient clipping to a maximum norm.
Clip ==
    /\ pc = "clip"
    /\ clipped' = TRUE
    /\ trace' = Append(trace, "clip")
    /\ pc' = AfterStep("clip")
    /\ UNCHANGED <<nb, epoch, batch, gradAcc, processed, optSteps, schedSteps>>
    /\ UNCHANGED notTrain

\* Optimization step: the parameters are updated from the gradients in place.
Optim ==
    /\ pc = "optim"
    /\ optSteps' = optSteps + 1
    /\ trace' = Append(trace, "optim")
    /\ pc' = AfterStep("optim")
    /\ UNCHANGED <<nb, epoch, batch, gradAcc, clipped, processed, schedSteps>>
    /\ UNCHANGED notTrain

\* Learning rate scheduling.
Sched ==
    /\ pc = "sched"
    /\ schedSteps' = schedSteps + 1
    /\ trace' = Append(trace, "sched")
    /\ pc' = AfterStep("sched")
    /\ UNCHANGED <<nb, epoch, batch, gradAcc, clipped, processed, optSteps>>
    /\ UNCHANGED notTrain

\* Zero the gradients; the batch is over and the loop moves on.
Zero ==
    /\ pc = "zero"
    /\ gradAcc' = 0
    /\ clipped' = FALSE
    /\ trace' = Append(trace, "zero")
    /\ processed' = [processed EXCEPT ![batch] = @ + 1]
    /\ IF batch < nb
       THEN /\ batch' = batch + 1
            /\ epoch' = epoch
            /\ pc' = "forward"
       ELSE IF ~LastEpoch(epoch)
       THEN /\ batch' = 1
            /\ epoch' = epoch + 1
            /\ pc' = "forward"
       ELSE /\ batch' = batch
            /\ epoch' = epoch
            /\ pc' = "done"
    /\ UNCHANGED <<nb, optSteps, schedSteps>>
    /\ UNCHANGED notTrain

NextTrain ==
    \/ Forward
    \/ Backward
    \/ Clip
    \/ Optim
    \/ Sched
    \/ Zero

(***************************************************************************)
(* Preprocessing, "verify and clean up the data": "several samples are     *)
(* mislabeled into "O O", when it should have been "O".  In this case, we  *)
(* simply replace with the correct labels."                                *)
(***************************************************************************)
NERLabels ==
    {"B-MISC", "I-MISC", "B-PER", "I-PER", "O", "B-LOC", "I-LOC", "B-ORG", "I-ORG"}

\* The labels found in the ingested data.
RawLabels == NERLabels \cup {"O O"}

\* The correct label for label l.
FixLabelB(l) == IF l = "O O" \/ l = "I-ORG" THEN "O" ELSE l
FixLabel(l) == IF l = "O O" THEN "O" ELSE l

CleanUp(ls) == [i \in 1..Len(ls) |-> FixLabel(ls[i])]

SeqsUpTo(S, n) == UNION {[1..k -> S] : k \in 0..n}

InitClean ==
    /\ labels \in SeqsUpTo(RawLabels, MaxWords)
    /\ orig = labels
    /\ prev = labels
    /\ passes = 0

\* One pass of the clean-up over the label column.
Clean ==
    /\ passes < MaxPasses
    /\ passes' = passes + 1
    /\ prev' = labels
    /\ labels' = CleanUp(labels)
    /\ UNCHANGED orig
    /\ UNCHANGED notClean

NextClean == Clean

(***************************************************************************)
(* Specifications: one part runs, the others are held idle.                *)
(***************************************************************************)
IdleCell ==
    /\ figure_formats = <<"png">>
    /\ font_family = "sans-serif"
    /\ dpi = 0
    /\ backend = "agg"
    /\ ns = [n \in Names |-> "unbound"]
    /\ installed = Packages
    /\ data = {}
    /\ outputs = <<>>
    /\ err = "none"
    /\ runs = 0

IdleTrain ==
    /\ nb = 1
    /\ epoch = 1
    /\ batch = 1
    /\ pc = "forward"
    /\ gradAcc = 0
    /\ clipped = FALSE
    /\ trace = <<>>
    /\ processed = [b \in 1..1 |-> 0]
    /\ optSteps = 0
    /\ schedSteps = 0

IdleClean ==
    /\ labels = <<>>
    /\ orig = <<>>
    /\ prev = <<>>
    /\ passes = 0

ReportInit == InitReport /\ IdleCell /\ IdleTrain /\ IdleClean
CellInit   == InitReport /\ InitCell /\ IdleTrain /\ IdleClean
TrainInit  == InitReport /\ IdleCell /\ InitTrain /\ IdleClean
CleanInit  == InitReport /\ IdleCell /\ IdleTrain /\ InitClean

SpecReport == ReportInit /\ [][NextReport]_vars

SpecCell == CellInit /\ [][NextCell]_vars

\* The loop is one sequential program that keeps executing: weak fairness.
SpecTrain == TrainInit /\ [][NextTrain]_vars /\ WF_vars(NextTrain)

SpecClean == CleanInit /\ [][NextClean]_vars

(***************************************************************************)
(* Properties.                                                             *)
(***************************************************************************)

\* C1: for every row of the two results tables (the overall row and the four
\* class rows), the F1 computed by the formula 2*P*R/(P+R) from the row's
\* reported precision and recall, rounded to the row's two decimals, is the
\* F1 the row reports.
C1_F1MatchesTables ==
    (row # "none" /\ f1 # -1) => f1 = Reported(row)

\* The formula has been applied to the overall row and to a class row.
C1_Witness ==
    /\ row = "ALL"
    /\ p = GeneralTable.P
    /\ r = GeneralTable.R
    /\ f1 = GeneralTable.F1

\* C4: what the discussion quotes for a class is the F1 of the class's row of
\* the detailed table; the class it calls the lowest, ORG at 0.63, has the
\* strictly lowest precision and the strictly lowest F1 of the four rows.
C4_DiscussionMatchesTable ==
    quoted # -1 =>
        /\ quoted = DetailTable[row].F1
        /\ LowestClass = "ORG"
        /\ Discussion[LowestClass] = 63
        /\ \A c \in Classes \ {LowestClass} :
              /\ DetailTable[LowestClass].P < DetailTable[c].P
              /\ DetailTable[LowestClass].F1 < DetailTable[c].F1
              /\ Discussion[LowestClass] < Discussion[c]

\* The reader has looked up the discussion's figure for ORG.
C4_Witness ==
    /\ row = LowestClass
    /\ quoted = DetailTable["ORG"].F1

\* What the cell's outcome is when every package it imports is installed.
Configured ==
    /\ figure_formats = <<"svg">>
    /\ font_family = "Latin Modern Roman"
    /\ dpi = DPI
    /\ backend = "inline"
    /\ err = "none"

\* C2 as stated: a run of the cell changes nothing but the display
\* configuration (figure format, font family, DPI, backend): it leaves the
\* data, the outputs and every other piece of state, the kernel's names
\* included, unchanged; whether it ends in an error does not depend on the
\* data; a second run changes nothing.
C2_OnlyDisplayConfig ==
    [][/\ UNCHANGED <<ns, installed, data, outputs>>
       /\ (err' = "none") <=> (Packages \subseteq installed)
       /\ runs >= 1 => UNCHANGED <<figure_formats, font_family, dpi, backend, err>>
      ]_vars

\* C2 as amended: a run of the cell changes the display configuration and
\* binds the names of its import statements (pd, np, plt, imread, sns) to
\* their modules, and nothing else: the data, the outputs, the installed
\* packages and every other name are unchanged.  It ends in an error exactly
\* when a package it imports is not installed, whatever the data; without
\* an error the configuration is svg / Latin Modern Roman / 800 / inline;
\* a second run changes nothing.
C2_ConfigAndImportsOnly ==
    [][/\ UNCHANGED <<installed, data, outputs>>
       /\ \A n \in Names \ ImportNames : ns'[n] = ns[n]
       /\ \A i \in 1..Len(Imports) :
             ns'[Imports[i].name] \in {ns[Imports[i].name], Imports[i].obj}
       /\ (err' = "none") <=> (Packages \subseteq installed)
       /\ err' = "none" => Configured'
       /\ runs >= 1 => UNCHANGED <<figure_formats, font_family, dpi, backend, ns, err>>
      ]_vars

\* The cell has run twice in a kernel that held data and names of the user.
C2_Witness ==
    /\ runs = 2
    /\ Configured
    /\ ns["np"] = "numpy"
    /\ ns["df"] = "user"
    /\ data = {"train", "test"}

IsPrefix(s, t) ==
    /\ Len(s) <= Len(t)
    /\ \A i \in 1..Len(s) : s[i] = t[i]

\* Number of batches whose six steps are over.
FinishedBatches ==
    (epoch - 1) * nb + (batch - 1) + (IF pc = "done" THEN 1 ELSE 0)

\* C3: in every batch the six steps happen once each, in the order forward,
\* backward, clip, optimizer, scheduler, zero: the steps taken so far in a
\* batch are a prefix of that order and the step about to run is the next
\* one; a batch is left only with all six taken; the optimizer steps only on
\* clipped gradients that hold the gradient of this batch alone; a forward
\* pass after the first starts from zeroed gradients.
C3_StepOrder ==
    /\ IsPrefix(trace, StepOrder)
    /\ pc \in {"backward", "clip", "optim", "sched", "zero"} =>
          /\ trace # <<>>
          /\ pc = StepOrder[Len(trace) + 1]
    /\ (pc = "forward" /\ FinishedBatches > 0) => (trace = StepOrder /\ gradAcc = 0)
    /\ pc = "done" => trace = StepOrder
    /\ pc = "optim" => (clipped /\ gradAcc = 1)
    /\ gradAcc <= 1
    /\ optSteps = FinishedBatches + (IF pc \in {"sched", "zero"} THEN 1 ELSE 0)
    /\ schedSteps = FinishedBatches + (IF pc = "zero" THEN 1 ELSE 0)

\* The optimizer is about to step in a batch that is not the first.
C3_Witness ==
    /\ epoch = 2
    /\ batch = nb
    /\ nb > 1
    /\ pc = "optim"
    /\ clipped
    /\ trace = <<"forward", "backward", "clip">>

\* Every batch has been processed once in each epoch that is over, and the
\* batches before the one in hand once more.
OncePerEpoch ==
    /\ epoch \in 1..Epochs
    /\ batch \in 1..nb
    /\ \A b \in 1..nb :
          processed[b] = (epoch - 1) + (IF b < batch \/ pc = "done" THEN 1 ELSE 0)
    /\ pc = "done" => (epoch = Epochs /\ \A b \in 1..nb : processed[b] = Epochs)

\* C5: the loop runs 10 epochs and stops: whatever the number of batches,
\* every batch is processed exactly once per epoch, the loop eventually is
\* done, and once done nothing more happens.
C5_TenEpochsThenStops ==
    /\ []OncePerEpoch
    /\ <>(pc = "done")
    /\ [][pc # "done"]_vars

\* The loop is done, with the largest number of batches.
C5_Witness ==
    /\ pc = "done"
    /\ nb > 1
    /\ epoch = Epochs
    /\ \A b \in 1..nb : processed[b] = Epochs

\* C6: after the clean-up every label is one of the nine labels; a label that
\* was "O O" is "O", a label that was one of the nine is what it was, the
\* words are as many as before and in the same places, and a second pass of
\* the clean-up changes nothing.
C6_CleanUp ==
    passes >= 1 =>
        /\ Len(labels) = Len(orig)
        /\ \A i \in 1..Len(orig) :
              /\ labels[i] \in NERLabels
              /\ orig[i] = "O O" => labels[i] = "O"
              /\ orig[i] \in NERLabels => labels[i] = orig[i]
        /\ passes >= 2 => labels = prev

\* Two passes over a column that held a mislabeled "O O" and an entity label.
C6_Witness ==
    /\ passes = 2
    /\ \E i \in 1..Len(orig) : orig[i] = "O O" /\ labels[i] = "O"
    /\ \E i \in 1..Len(orig) : orig[i] = "I-ORG" /\ labels[i] = "I-ORG"
====
